---- MODULE Spec2Model ----
(***************************************************************************)
(* A model of the luminari backend: the retry wrapper, the auth service,   *)
(* the auth gate of the protected routes, the Connection Manager and the   *)
(* process lifecycle, the document list filter, the connection URL         *)
(* defaults and the confidence extraction.                                 *)
(*                                                                         *)
(* Each subsystem has its own variables and its own specification; a       *)
(* specification leaves the variables of the other subsystems unchanged.   *)
(***************************************************************************)
EXTENDS Integers, Sequences, FiniteSets, TLC

VARIABLES
    \* ---- withRetry (src/index.js 88-112): one call of the wrapper
    maxRetries,     \* the maxRetries argument of the call
    i,              \* the loop index
    retryPc,        \* "idle" | "operation" | "cleanup" | "backoff" | "returned" | "thrown"
    attemptLog,     \* one entry per run of operation(): its outcome (history)
    cleanupLog,     \* one entry per DEALLOCATE ALL issued: its outcome (history)
    delays,         \* the delays handed to setTimeout, in order (history)
    result,         \* what the call returned
    thrown,         \* the error the call raised
    \* ---- Connection Manager and process lifecycle (src/lib/prisma.js,
    \*      src/unnamed/part_000, src/unnamed/part_001, src/index.js 7, 521-532)
    variant,        \* which Connection Manager file the deployment loads
    nodeEnv,        \* process.env.NODE_ENV
    loads,          \* how many times the module body has been evaluated
    handles,        \* handles[h]: "open" | "closing" | "closed", one per PrismaClient created
    createdAtLoad,  \* createdAtLoad[h]: the module load that created handle h (history)
    globalPrisma,   \* global.prisma (None when unset)
    exported,       \* module.exports of the latest load
    appPrisma,      \* const prisma of src/index.js, bound by its require
    hooks,          \* the teardown hooks registered, in order
    reqs,           \* reqs[r]: a request in flight through withRetry
    usedHandles,    \* the handles request handlers have issued queries on (history)
    sigHandlers,    \* the signal handlers started, in order
    exited,         \* the process has exited
    \* ---- Auth service (src/index.js 57-85, 115-151)
    users,          \* the rows of the User table, in creation order
    authReqs,       \* authReqs[r]: a register or login request in flight; found is
                    \* the row a login's lookup resolved to
    \* ---- Auth gate and routes (src/index.js 34-54, 154-225, 286, 346, 412)
    gateReqs,       \* gateReqs[r]: a request on its way through the route's chain
    \* ---- Document store gateway (src/index.js 158-188)
    documents,      \* the rows of the Document table, in insertion order
    listQuery,      \* req.query of the last GET /documents
    listResponse,   \* its response
    \* ---- getDatabaseUrl (src/lib/prisma.js 6-30, src/unnamed/part_000 6-23)
    urlVariant,     \* which of the two getDatabaseUrl functions runs
    baseUrl,        \* process.env.DATABASE_URL
    urlOut,         \* what getDatabaseUrl returned
    urlAgain,       \* what it returned when run on its own output
    \* ---- extractConfidence (src/index.js 277-283)
    text,           \* the cleaned response text, a sequence of tokens
    confidence,     \* what extractConfidence returned
    \* ---- teardown (src/lib/prisma.js 53-60, part_000 45-47, src/index.js 522-532)
    beforeExit,     \* the process has emitted 'beforeExit'
    hookRuns,       \* the run of each teardown hook: its position, its reset's outcome
    teardownLog     \* the reset and release commands issued at teardown (history)

retryVars == <<maxRetries, i, retryPc, attemptLog, cleanupLog, delays, result, thrown>>
connVars == <<variant, nodeEnv, loads, handles, createdAtLoad, globalPrisma, exported,
              appPrisma, hooks, reqs, usedHandles, sigHandlers, exited>>

authVars == <<users, authReqs>>

gateVars == <<gateReqs>>

docVars == <<documents, listQuery, listResponse>>

urlVars == <<urlVariant, baseUrl, urlOut, urlAgain>>

confVars == <<text, confidence>>

teardownVars == <<beforeExit, hookRuns, teardownLog>>

vars == <<retryVars, connVars, authVars, gateVars, docVars, urlVars, confVars, teardownVars>>

(***************************************************************************)
(* Bounds of the model.                                                    *)
(***************************************************************************)
MaxRetriesBound == 4
MaxLoads == 2
MaxRequests == 1
MaxSignals == 2
MaxAuthRequests == 2
MaxGateRequests == 1
MaxDocuments == 2
MaxCreatedAt == 2

None == 0

Undefined == "undefined"
NoError == [attempt |-> 0, message |-> "none"]

(***************************************************************************)
(* withRetry                                                               *)
(***************************************************************************)
\* The default of the maxRetries parameter.
DefaultMaxRetries == 3

\* What an operation can resolve to: a row, or null (findUnique of no row).
OperationValues == {"row", "null"}

\* The error messages an operation can reject with.
ErrorMessages ==
    { "connection refused",
      "prepared statement s0 already exists",
      "prepared statement s0 does not exist",
      "relation already exists" }

\* error.message.includes(phrase), for the two phrases the wrapper looks for.
Includes(message, phrase) ==
    CASE phrase = "prepared statement" ->
            message \in { "prepared statement s0 already exists",
                          "prepared statement s0 does not exist" }
      [] phrase = "already exists" ->
            message \in { "prepared statement s0 already exists",
                          "relation already exists" }
      [] OTHER -> FALSE

\* The condition of the cleanup branch.
MutIsPreparedStatementError(error) == Includes(error.message, "prepared statement")
IsPreparedStatementError(error) ==
    /\ Includes(error.message, "prepared statement")
    /\ Includes(error.message, "already exists")

\* for (let i = 0; i < maxRetries; i++)
LoopContinues(idx, max) == idx < max

\* if (i === maxRetries - 1) throw error;
MutIsLastAttempt(idx, max) == idx = max
IsLastAttempt(idx, max) == idx = max - 1

RECURSIVE Pow2(_)
Pow2(n) == IF n = 0 THEN 1 ELSE 2 * Pow2(n - 1)

\* 1000 * Math.pow(2, i)
MutBackoffDelay(idx) == 1000 * (idx + 1)
BackoffDelay(idx) == 1000 * Pow2(idx)

\* The part of the catch block after the cleanup branch: rethrow on the last
\* attempt, otherwise hand the backoff delay to setTimeout and wait.
AfterCleanup(error) ==
    IF IsLastAttempt(i, maxRetries)
    THEN /\ retryPc' = "thrown"
         /\ thrown' = error
         /\ UNCHANGED delays
    ELSE /\ retryPc' = "backoff"
         /\ delays' = Append(delays, BackoffDelay(i))
         /\ UNCHANGED thrown

\* withRetry(operation, max): the loop is entered, or falls through at once.
RetryCall(max) ==
    /\ retryPc = "idle"
    /\ maxRetries' = max
    /\ i' = 0
    /\ IF LoopContinues(0, max)
       THEN retryPc' = "operation" /\ UNCHANGED result
       ELSE retryPc' = "returned" /\ result' = Undefined
    /\ UNCHANGED <<attemptLog, cleanupLog, delays, thrown>>

\* await operation() resolves: return result.
OperationResolves(value) ==
    /\ retryPc = "operation"
    /\ attemptLog' = Append(attemptLog, [ok |-> TRUE, value |-> value, error |-> NoError])
    /\ result' = value
    /\ retryPc' = "returned"
    /\ UNCHANGED <<maxRetries, i, cleanupLog, delays, thrown>>

\* await operation() rejects: the catch block, up to its first await.
OperationRejects(message) ==
    LET error == [attempt |-> i + 1, message |-> message] IN
    /\ retryPc = "operation"
    /\ attemptLog' = Append(attemptLog, [ok |-> FALSE, value |-> Undefined, error |-> error])
    /\ IF IsPreparedStatementError(error)
       THEN /\ retryPc' = "cleanup"
            /\ UNCHANGED <<delays, thrown>>
       ELSE AfterCleanup(error)
    /\ UNCHANGED <<maxRetries, i, cleanupLog, result>>

\* The message of cleanupError when DEALLOCATE ALL is rejected.
CleanupErrorMessage == "DEALLOCATE ALL failed: connection closed"

\* await prisma.$executeRaw`DEALLOCATE ALL` resolves or rejects; a rejection
\* is caught and logged. The catch block then goes on.
CleanupSettles(ok) ==
    /\ retryPc = "cleanup"
    /\ cleanupLog' = Append(cleanupLog,
          [attempt |-> i + 1, ok |-> ok,
           logged |-> IF ok THEN "Cleaned up prepared statements" ELSE CleanupErrorMessage])
    /\ AfterCleanup(attemptLog[Len(attemptLog)].error)
    /\ UNCHANGED <<maxRetries, i, attemptLog, result>>

\* The timer fires: i++, and the loop condition is tested again.
BackoffElapses ==
    /\ retryPc = "backoff"
    /\ i' = i + 1
    /\ IF LoopContinues(i + 1, maxRetries)
       THEN retryPc' = "operation" /\ UNCHANGED result
       ELSE retryPc' = "returned" /\ result' = Undefined
    /\ UNCHANGED <<maxRetries, attemptLog, cleanupLog, delays, thrown>>

RetryInit ==
    /\ maxRetries = DefaultMaxRetries
    /\ i = 0
    /\ retryPc = "idle"
    /\ attemptLog = <<>>
    /\ cleanupLog = <<>>
    /\ delays = <<>>
    /\ result = Undefined
    /\ thrown = NoError

(***************************************************************************)
(* Connection Manager and process lifecycle                                *)
(***************************************************************************)
\* The three Connection Manager files of the repository.
Variants == {"lib", "deployment", "plain"}
Environments == {"production", "development"}
Signals == {"SIGINT", "SIGTERM"}
ReqIds == 1..MaxRequests

\* Whether the module body runs new PrismaClient(...) when it is evaluated.
\*   src/lib/prisma.js: both branches are guarded by if (!global.prisma);
\*   part_000 and part_001: the production branch is unguarded.
MutCreatesHandle(v, env, global) == TRUE
CreatesHandle(v, env, global) ==
    IF env = "production" /\ v \in {"deployment", "plain"}
    THEN TRUE
    ELSE global = None

\* Whether the module body assigns global.prisma to the handle it created.
CachesInGlobal(v, env) == ~(env = "production" /\ v \in {"deployment", "plain"})

\* The teardown hook the production branch registers with a new handle.
HookFor(v, env, h) ==
    IF env # "production" THEN <<>>
    ELSE CASE v = "lib" -> << [on |-> "prisma.beforeExit", handle |-> h, deallocates |-> TRUE] >>
           [] v = "deployment" -> << [on |-> "process.beforeExit", handle |-> h, deallocates |-> FALSE] >>
           [] OTHER -> <<>>

\* One evaluation of the module body. The first one is the require of
\* src/index.js line 7, which binds its const prisma to module.exports.
LoadConnectionManager ==
    LET new == CreatesHandle(variant, nodeEnv, globalPrisma)
        h == Len(handles) + 1
        out == IF new THEN h ELSE globalPrisma
    IN
    /\ ~exited
    /\ loads < MaxLoads
    /\ loads' = loads + 1
    /\ IF new
       THEN /\ handles' = Append(handles, "open")
            /\ createdAtLoad' = Append(createdAtLoad, loads + 1)
            /\ hooks' = hooks \o HookFor(variant, nodeEnv, h)
            /\ globalPrisma' = IF CachesInGlobal(variant, nodeEnv) THEN h ELSE globalPrisma
       ELSE UNCHANGED <<handles, createdAtLoad, hooks, globalPrisma>>
    /\ exported' = out
    /\ appPrisma' = IF loads = 0 THEN out ELSE appPrisma
    /\ UNCHANGED <<variant, nodeEnv, reqs, usedHandles, sigHandlers, exited>>

IdleRequest == [pc |-> "idle", i |-> 0, status |-> 0]

\* A request whose handler goes to the data store through withRetry.
RequestArrives(r) ==
    /\ ~exited
    /\ appPrisma # None
    /\ reqs[r].pc = "idle"
    /\ reqs' = [reqs EXCEPT ![r] = [pc |-> "operation", i |-> 0, status |-> 0]]
    /\ UNCHANGED <<variant, nodeEnv, loads, handles, createdAtLoad, globalPrisma,
                   exported, appPrisma, hooks, usedHandles, sigHandlers, exited>>

\* The query of the request, on the handle of src/index.js, resolves or
\* rejects; a rejection is retried as withRetry does, with the default
\* maxRetries, and the last one is answered 500.
RequestQuery(r, ok) ==
    /\ ~exited
    /\ reqs[r].pc = "operation"
    /\ usedHandles' = usedHandles \cup {appPrisma}
    /\ reqs' = [reqs EXCEPT ![r] =
          IF ok THEN [pc |-> "done", i |-> reqs[r].i, status |-> 200]
          ELSE IF IsLastAttempt(reqs[r].i, DefaultMaxRetries)
               THEN [pc |-> "done", i |-> reqs[r].i, status |-> 500]
               ELSE [pc |-> "backoff", i |-> reqs[r].i, status |-> 0]]
    /\ UNCHANGED <<variant, nodeEnv, loads, handles, createdAtLoad, globalPrisma,
                   exported, appPrisma, hooks, sigHandlers, exited>>

RequestBackoffElapses(r) ==
    /\ ~exited
    /\ reqs[r].pc = "backoff"
    /\ reqs' = [reqs EXCEPT ![r] = [pc |-> "operation", i |-> reqs[r].i + 1, status |-> 0]]
    /\ UNCHANGED <<variant, nodeEnv, loads, handles, createdAtLoad, globalPrisma,
                   exported, appPrisma, hooks, usedHandles, sigHandlers, exited>>

\* prisma.$disconnect() on handle h: an open handle starts closing.
Disconnect(hs, h) == [hs EXCEPT ![h] = IF hs[h] = "open" THEN "closing" ELSE hs[h]]

\* process.on('SIGINT' | 'SIGTERM'): the handler logs and calls
\* prisma.$disconnect(), then awaits it.
SignalReceived(sig) ==
    /\ ~exited
    /\ appPrisma # None
    /\ Len(sigHandlers) < MaxSignals
    /\ handles' = Disconnect(handles, appPrisma)
    /\ sigHandlers' = Append(sigHandlers, [signal |-> sig, pc |-> "awaitDisconnect"])
    /\ teardownLog' = Append(teardownLog, [by |-> sig, command |-> "release", handle |-> appPrisma])
    /\ UNCHANGED <<beforeExit, hookRuns>>
    /\ UNCHANGED <<variant, nodeEnv, loads, createdAtLoad, globalPrisma, exported,
                   appPrisma, hooks, reqs, usedHandles, exited>>

\* The data store session of a closing handle is released.
DisconnectCompletes(h) ==
    /\ ~exited
    /\ h \in DOMAIN handles
    /\ handles[h] = "closing"
    /\ handles' = [handles EXCEPT ![h] = "closed"]
    /\ UNCHANGED <<variant, nodeEnv, loads, createdAtLoad, globalPrisma, exported,
                   appPrisma, hooks, reqs, usedHandles, sigHandlers, exited>>

\* await prisma.$disconnect() has resolved: the handler may go on.
MutDisconnectAwaited(h) == TRUE
DisconnectAwaited(h) == handles[h] = "closed"

\* process.exit(0), the statement after the await.
SignalHandlerExits(k) ==
    /\ ~exited
    /\ k \in DOMAIN sigHandlers
    /\ sigHandlers[k].pc = "awaitDisconnect"
    /\ DisconnectAwaited(appPrisma)
    /\ sigHandlers' = [sigHandlers EXCEPT ![k].pc = "exit"]
    /\ exited' = TRUE
    /\ UNCHANGED <<variant, nodeEnv, loads, handles, createdAtLoad, globalPrisma,
                   exported, appPrisma, hooks, reqs, usedHandles>>

\* The event loop is empty: no request in flight, no signal handler waiting,
\* no release under way (and the server is not listening).
EventLoopEmpty ==
    /\ \A r \in ReqIds : reqs[r].pc \in {"idle", "done"}
    /\ \A k \in DOMAIN sigHandlers : sigHandlers[k].pc # "awaitDisconnect"
    /\ \A h \in DOMAIN handles : handles[h] # "closing"

\* The first command of a teardown hook: executeRaw`DEALLOCATE ALL` in the
\* hook of src/lib/prisma.js, $disconnect() in the hook of part_000.
FirstCommand(hook) == IF hook.deallocates THEN "reset" ELSE "release"

\* 'beforeExit' is emitted: every registered hook runs up to its first await.
BeforeExitEmitted ==
    /\ ~exited
    /\ ~beforeExit
    /\ appPrisma # None
    /\ EventLoopEmpty
    /\ beforeExit' = TRUE
    /\ hookRuns' = [k \in DOMAIN hooks |->
          [pc |-> IF hooks[k].deallocates THEN "awaitReset" ELSE "awaitDisconnect",
           reset |-> "none"]]
    /\ teardownLog' = teardownLog \o
          [k \in DOMAIN hooks |->
             [by |-> hooks[k].on, command |-> FirstCommand(hooks[k]), handle |-> hooks[k].handle]]
    /\ handles' = [h \in DOMAIN handles |->
          IF \E k \in DOMAIN hooks : hooks[k].handle = h /\ ~hooks[k].deallocates
          THEN Disconnect(handles, h)[h] ELSE handles[h]]
    /\ UNCHANGED <<variant, nodeEnv, loads, createdAtLoad, globalPrisma, exported,
                   appPrisma, hooks, reqs, usedHandles, sigHandlers, exited>>

\* DEALLOCATE ALL of hook k resolves or rejects; a rejection is caught and
\* logged. The hook then calls $disconnect() and awaits it.
HookResetSettles(k, ok) ==
    /\ ~exited
    /\ k \in DOMAIN hookRuns
    /\ hookRuns[k].pc = "awaitReset"
    /\ hookRuns' = [hookRuns EXCEPT ![k] =
          [pc |-> "awaitDisconnect", reset |-> IF ok THEN "ok" ELSE "failed"]]
    /\ teardownLog' = Append(teardownLog,
          [by |-> hooks[k].on, command |-> "release", handle |-> hooks[k].handle])
    /\ handles' = Disconnect(handles, hooks[k].handle)
    /\ UNCHANGED <<variant, nodeEnv, loads, createdAtLoad, globalPrisma, exported,
                   appPrisma, hooks, reqs, usedHandles, sigHandlers, exited, beforeExit>>

\* await $disconnect() of hook k has resolved: the hook returns.
HookReturns(k) ==
    /\ ~exited
    /\ k \in DOMAIN hookRuns
    /\ hookRuns[k].pc = "awaitDisconnect"
    /\ DisconnectAwaited(hooks[k].handle)
    /\ hookRuns' = [hookRuns EXCEPT ![k].pc = "done"]
    /\ UNCHANGED <<variant, nodeEnv, loads, handles, createdAtLoad, globalPrisma, exported,
                   appPrisma, hooks, reqs, usedHandles, sigHandlers, exited, beforeExit,
                   teardownLog>>

\* The hooks have returned and nothing is left to run: the process exits.
ProcessExits ==
    /\ ~exited
    /\ beforeExit
    /\ \A k \in DOMAIN hookRuns : hookRuns[k].pc = "done"
    /\ EventLoopEmpty
    /\ exited' = TRUE
    /\ UNCHANGED <<variant, nodeEnv, loads, handles, createdAtLoad, globalPrisma, exported,
                   appPrisma, hooks, reqs, usedHandles, sigHandlers, beforeExit, hookRuns,
                   teardownLog>>

ConnInit ==
    /\ variant \in Variants
    /\ nodeEnv \in Environments
    /\ loads = 0
    /\ handles = <<>>
    /\ createdAtLoad = <<>>
    /\ globalPrisma = None
    /\ exported = None
    /\ appPrisma = None
    /\ hooks = <<>>
    /\ reqs = [r \in ReqIds |-> IdleRequest]
    /\ usedHandles = {}
    /\ sigHandlers = <<>>
    /\ exited = FALSE
    /\ beforeExit = FALSE
    /\ hookRuns = <<>>
    /\ teardownLog = <<>>

\* The Connection Manager at rest, for the specifications of the other parts.
ConnIdle ==
    /\ variant = "lib"
    /\ nodeEnv = "development"
    /\ loads = 0
    /\ handles = <<>>
    /\ createdAtLoad = <<>>
    /\ globalPrisma = None
    /\ exported = None
    /\ appPrisma = None
    /\ hooks = <<>>
    /\ reqs = [r \in ReqIds |-> IdleRequest]
    /\ usedHandles = {}
    /\ sigHandlers = <<>>
    /\ exited = FALSE
    /\ beforeExit = FALSE
    /\ hookRuns = <<>>
    /\ teardownLog = <<>>

RetryIdle == RetryInit

(***************************************************************************)
(* Auth service                                                            *)
(***************************************************************************)
AuthIds == 1..MaxAuthRequests

\* req.body.username and req.body.password; "" stands for a missing or empty one.
\* Users register with pw1; a login may also try pw2.
Usernames == {"", "alice", "bob"}
RegisterPasswords == {"", "pw1"}
LoginPasswords == {"", "pw1", "pw2"}

\* bcrypt.hash(password, 10) and bcrypt.compare(password, hash).
Hash(password) == <<"bcrypt", 10, password>>
Compare(password, hashed) == hashed = Hash(password)

Null == [id |-> 0, username |-> "", password |-> <<>>]
Unset == [id |-> -1, username |-> "", password |-> <<>>]

\* prisma.user.findUnique({ where: { username } })
FindUnique(rows, username) ==
    IF \E k \in DOMAIN rows : rows[k].username = username
    THEN rows[CHOOSE k \in DOMAIN rows : rows[k].username = username]
    ELSE Null

\* User.username is unique in the schema: findUnique takes it as its key.
UsernameIsUnique == TRUE

\* Whether prisma.user.create({ data: { username, ... } }) is rejected by the store.
CreateRejected(rows, username) ==
    UsernameIsUnique /\ FindUnique(rows, username) # Null

UniqueConstraintMessage == "Unique constraint failed on the fields: (username)"
TransientMessage == "connection refused"

\* res.status(s).json({ error }) and the success bodies.
Response(status, error, userId) == [status |-> status, error |-> error, userId |-> userId]
NoResponse == Response(0, "", 0)
MissingFieldsResponse == Response(400, "Username and password required", 0)
UsernameExistsResponse == Response(400, "Username already exists", 0)
MutUnknownUserResponse == Response(401, "User not found", 0)
UnknownUserResponse == Response(401, "Invalid credentials", 0)
WrongPasswordResponse == Response(401, "Invalid credentials", 0)
LoginUnavailableResponse == Response(500, "Authentication service temporarily unavailable", 0)

IdleAuth ==
    [kind |-> "none", pc |-> "idle", username |-> "", password |-> "", i |-> 0,
     found |-> Unset, response |-> NoResponse]

\* A rejected operation inside withRetry with the default maxRetries: the
\* wrapper waits and runs it again (i + 1), or rethrows into the handler's
\* catch, which answers with onThrow.
Retried(req, onThrow) ==
    IF IsLastAttempt(req.i, DefaultMaxRetries)
    THEN [req EXCEPT !.pc = "done", !.i = 0, !.response = onThrow]
    ELSE [req EXCEPT !.i = req.i + 1]

\* POST /auth/register, up to the first await.
RegisterArrives(r, username, password) ==
    /\ authReqs[r].pc = "idle"
    /\ authReqs' = [authReqs EXCEPT ![r] =
          IF username = "" \/ password = ""
          THEN [IdleAuth EXCEPT !.kind = "register", !.pc = "done", !.username = username,
                                !.password = password, !.response = MissingFieldsResponse]
          ELSE [IdleAuth EXCEPT !.kind = "register", !.pc = "lookup", !.username = username,
                                !.password = password]]
    /\ UNCHANGED users

\* existingUser = await withRetry(findUnique): one attempt resolves or rejects.
RegisterLookup(r, ok) ==
    LET req == authReqs[r]
        existingUser == FindUnique(users, req.username)
    IN
    /\ req.kind = "register"
    /\ req.pc = "lookup"
    /\ authReqs' = [authReqs EXCEPT ![r] =
          IF ~ok THEN Retried(req, Response(500, TransientMessage, 0))
          ELSE IF existingUser # Null
               THEN [req EXCEPT !.pc = "done", !.i = 0, !.response = UsernameExistsResponse]
               ELSE [req EXCEPT !.pc = "hash", !.i = 0]]
    /\ UNCHANGED users

\* hashedPassword = await bcrypt.hash(password, 10)
RegisterHash(r) ==
    /\ authReqs[r].kind = "register"
    /\ authReqs[r].pc = "hash"
    /\ authReqs' = [authReqs EXCEPT ![r].pc = "create"]
    /\ UNCHANGED users

\* user = await withRetry(create): one attempt. The store rejects a second
\* row of the same username; ok = FALSE is a transient failure.
RegisterCreate(r, ok) ==
    LET req == authReqs[r]
        user == [id |-> Len(users) + 1, username |-> req.username,
                 password |-> Hash(req.password)]
    IN
    /\ req.kind = "register"
    /\ req.pc = "create"
    /\ IF CreateRejected(users, req.username)
       THEN /\ authReqs' = [authReqs EXCEPT ![r] =
                  Retried(req, Response(500, UniqueConstraintMessage, 0))]
            /\ UNCHANGED users
       ELSE IF ~ok
       THEN /\ authReqs' = [authReqs EXCEPT ![r] =
                  Retried(req, Response(500, TransientMessage, 0))]
            /\ UNCHANGED users
       ELSE /\ users' = Append(users, user)
            /\ authReqs' = [authReqs EXCEPT ![r] =
                  [req EXCEPT !.pc = "done", !.i = 0, !.response = Response(201, "", user.id)]]

\* POST /auth/login, up to the first await.
LoginArrives(r, username, password) ==
    /\ authReqs[r].pc = "idle"
    /\ authReqs' = [authReqs EXCEPT ![r] =
          IF username = "" \/ password = ""
          THEN [IdleAuth EXCEPT !.kind = "login", !.pc = "done", !.username = username,
                                !.password = password, !.response = MissingFieldsResponse]
          ELSE [IdleAuth EXCEPT !.kind = "login", !.pc = "lookup", !.username = username,
                                !.password = password]]
    /\ UNCHANGED users

\* user = await withRetry(findUnique): one attempt resolves or rejects.
LoginLookup(r, ok) ==
    LET req == authReqs[r]
        user == FindUnique(users, req.username)
    IN
    /\ req.kind = "login"
    /\ req.pc = "lookup"
    /\ authReqs' = [authReqs EXCEPT ![r] =
          IF ~ok THEN Retried(req, LoginUnavailableResponse)
          ELSE IF user = Null
               THEN [req EXCEPT !.pc = "done", !.i = 0, !.found = Null,
                                !.response = UnknownUserResponse]
               ELSE [req EXCEPT !.pc = "compare", !.i = 0, !.found = user]]
    /\ UNCHANGED users

\* validPassword = await bcrypt.compare(password, user.password), then the
\* 401 or the signed token in a 200.
LoginCompare(r) ==
    LET req == authReqs[r] IN
    /\ req.kind = "login"
    /\ req.pc = "compare"
    /\ authReqs' = [authReqs EXCEPT ![r] =
          IF ~Compare(req.password, req.found.password)
          THEN [req EXCEPT !.pc = "done", !.response = WrongPasswordResponse]
          ELSE [req EXCEPT !.pc = "done", !.response = Response(200, "", req.found.id)]]
    /\ UNCHANGED users

\* The response has been sent; the slot serves the next request.
AuthRequestEnds(r) ==
    /\ authReqs[r].pc = "done"
    /\ authReqs' = [authReqs EXCEPT ![r] = IdleAuth]
    /\ UNCHANGED users

AuthInit ==
    /\ users = <<>>
    /\ authReqs = [r \in AuthIds |-> IdleAuth]

AuthIdle == AuthInit

(***************************************************************************)
(* Auth gate and routes                                                    *)
(***************************************************************************)
GateIds == 1..MaxGateRequests

\* The routes the app registers, and the gateway each handler belongs to.
Routes ==
    { [route |-> "GET /",                          gateway |-> "health"],
      [route |-> "POST /auth/register",            gateway |-> "auth"],
      [route |-> "POST /auth/login",               gateway |-> "auth"],
      [route |-> "GET /auth/verify",               gateway |-> "auth"],
      [route |-> "POST /documents",                gateway |-> "documents"],
      [route |-> "GET /documents",                 gateway |-> "documents"],
      [route |-> "GET /documents/:id",             gateway |-> "documents"],
      [route |-> "PUT /documents/:id",             gateway |-> "documents"],
      [route |-> "DELETE /documents/:id",          gateway |-> "documents"],
      [route |-> "POST /claude/text-processing",   gateway |-> "claude"],
      [route |-> "POST /claude/pattern-analysis",  gateway |-> "claude"],
      [route |-> "POST /claude/reasoning-generation", gateway |-> "claude"] }

\* Whether the route is registered with authenticateToken before its handler.
MutUsesAuthenticateToken(route) ==
    route \notin {"GET /", "POST /auth/register", "POST /auth/login", "DELETE /documents/:id"}
UsesAuthenticateToken(route) ==
    route \notin {"GET /", "POST /auth/register", "POST /auth/login"}

\* The Authorization header as authHeader.split(' ') sees it: its words. The
\* empty sequence stands for a request without the header.
NoHeader == <<>>
Headers ==
    { NoHeader,
      <<"">>,
      <<"Bearer">>,
      <<"Bearer", "">>,
      <<"jwt-alice">>,
      <<"Bearer", "jwt-alice">>,
      <<"Basic", "jwt-alice">>,
      <<"Bearer", "jwt-alice-expired">>,
      <<"Bearer", "jwt-forged">>,
      <<"Bearer", "garbage">> }

\* token = authHeader && authHeader.split(' ')[1]; "" stands for every falsy
\* value (no header, no second word, an empty second word).
TokenOf(header) == IF Len(header) >= 2 THEN header[2] ELSE ""

NoUser == [userId |-> 0, username |-> ""]

\* jwt.verify(token, JWT_SECRET, callback): the decoded payload, or an error
\* for a bad signature, an expired or a malformed token.
JwtVerify(token) ==
    IF token = "jwt-alice"
    THEN [err |-> FALSE, user |-> [userId |-> 1, username |-> "alice"]]
    ELSE [err |-> TRUE, user |-> NoUser]

\* The statuses a route's handler can answer with.
HandlerStatuses(route) ==
    CASE route = "GET /" -> {200}
      [] route = "POST /auth/register" -> {201, 400, 500}
      [] route = "POST /auth/login" -> {200, 400, 401, 500}
      [] route = "GET /auth/verify" -> {200}
      [] route = "POST /documents" -> {201, 400}
      [] route = "GET /documents" -> {200, 500}
      [] route = "GET /documents/:id" -> {200, 404, 500}
      [] route \in {"PUT /documents/:id", "DELETE /documents/:id"} -> {200, 400}
      [] OTHER -> {200, 400, 500}

IdleGate ==
    [pc |-> "idle", route |-> "", gateway |-> "", header |-> NoHeader, user |-> NoUser,
     status |-> 0, error |-> "", handlerRuns |-> 0, storeCalls |-> 0, outboundCalls |-> 0]

\* A request is routed: to authenticateToken when the route has it, to the
\* handler otherwise.
GateRequestArrives(r, rt, header) ==
    /\ gateReqs[r].pc = "idle"
    /\ gateReqs' = [gateReqs EXCEPT ![r] =
          [IdleGate EXCEPT !.pc = IF UsesAuthenticateToken(rt.route) THEN "middleware" ELSE "handler",
                           !.route = rt.route, !.gateway = rt.gateway, !.header = header]]

\* authenticateToken(req, res, next)
AuthenticateToken(r) ==
    LET req == gateReqs[r]
        token == TokenOf(req.header)
        verified == JwtVerify(token)
    IN
    /\ req.pc = "middleware"
    /\ gateReqs' = [gateReqs EXCEPT ![r] =
          IF token = ""
          THEN [req EXCEPT !.pc = "done", !.status = 401, !.error = "Access token required"]
          ELSE IF verified.err
          THEN [req EXCEPT !.pc = "done", !.status = 403, !.error = "Invalid or expired token"]
          ELSE [req EXCEPT !.pc = "handler", !.user = verified.user]]

\* The route's handler runs and answers; a documents or auth handler goes to
\* the data store and a claude handler to the completion service, unless it
\* answers before (a missing field, a missing credential).
RunHandler(r, status, reached) ==
    LET req == gateReqs[r] IN
    /\ req.pc = "handler"
    /\ status \in HandlerStatuses(req.route)
    /\ gateReqs' = [gateReqs EXCEPT ![r] =
          [req EXCEPT !.pc = "done", !.status = status,
                      !.handlerRuns = req.handlerRuns + 1,
                      !.storeCalls = IF reached /\ req.gateway \in {"documents", "auth"}
                                        /\ req.route # "GET /auth/verify"
                                     THEN 1 ELSE 0,
                      !.outboundCalls = IF reached /\ req.gateway = "claude" THEN 1 ELSE 0]]

\* The response has been sent; the slot serves the next request.
GateRequestEnds(r) ==
    /\ gateReqs[r].pc = "done"
    /\ gateReqs' = [gateReqs EXCEPT ![r] = IdleGate]

GateInit == gateReqs = [r \in GateIds |-> IdleGate]

GateIdle == GateInit

(***************************************************************************)
(* Document store gateway                                                  *)
(***************************************************************************)
\* The DocumentType enum of the migration.
DocumentTypes == {"PROTOCOL", "STUDY_DESIGN", "REGULATORY", "OTHER"}

\* A NULL column.
SqlNull == "<NULL>"

FilterFields == {"type", "country", "region", "disease", "documentType"}

\* The rows clients create (req.body is stored as it is).
DocumentRows ==
    [ type : {"PROTOCOL", "OTHER"},
      country : {SqlNull, "US", ""},
      region : {"EU"},
      disease : {SqlNull},
      documentType : {"CSR"},
      createdAt : 1..MaxCreatedAt ]

\* req.query: a parameter is absent (undefined), empty (?country=) or a value.
\* (A type that is no value of the enum is left out: the store rejects it
\* before it filters.)
Queries ==
    [ type : {Undefined, "PROTOCOL", "OTHER"},
      country : {Undefined, "", "US"},
      region : {Undefined, "EU"},
      disease : {Undefined, "flu"},
      documentType : {Undefined, ""} ]

NoQuery == [f \in FilterFields |-> Undefined]
NoListResponse == [status |-> 0, docs |-> <<>>]

\* POST /documents: prisma.document.create({ data: req.body })
CreateDocument(row) ==
    /\ listResponse = NoListResponse
    /\ Len(documents) < MaxDocuments
    /\ documents' = Append(documents, row)
    /\ UNCHANGED <<listQuery, listResponse>>

\* The where clause of findMany: a field that is undefined is no filter; any
\* other value, the empty string too, must equal the column.
Matches(row, where) ==
    \A f \in FilterFields : where[f] # Undefined => row[f] = where[f]

\* orderBy: { createdAt: 'desc' }: the orders of the matching rows the store
\* may answer with (rows of one createdAt come in any order).
OrderedDesc(rows, idxs) ==
    { s \in [1..Cardinality(idxs) -> idxs] :
        /\ \A a, b \in DOMAIN s : a # b => s[a] # s[b]
        /\ \A a, b \in DOMAIN s : a < b => rows[s[a]].createdAt >= rows[s[b]].createdAt }

\* GET /documents: the five query parameters go into where as they are; a
\* failure of the store (ok = FALSE) is answered 500.
ListDocuments(query, ok) ==
    LET where == [f \in FilterFields |-> query[f]]
        idxs == {k \in DOMAIN documents : Matches(documents[k], where)}
    IN
    /\ listResponse = NoListResponse
    /\ listQuery' = query
    /\ IF ~ok
       THEN listResponse' = [status |-> 500, docs |-> <<>>]
       ELSE \E s \in OrderedDesc(documents, idxs) :
              listResponse' = [status |-> 200, docs |-> [k \in DOMAIN s |-> documents[s[k]]]]
    /\ UNCHANGED documents

\* The response has been sent.
ListResponseSent ==
    /\ listResponse # NoListResponse
    /\ listResponse' = NoListResponse
    /\ listQuery' = NoQuery
    /\ UNCHANGED documents

DocInit ==
    /\ documents = <<>>
    /\ listQuery = NoQuery
    /\ listResponse = NoListResponse

DocIdle == DocInit

(***************************************************************************)
(* getDatabaseUrl                                                          *)
(***************************************************************************)
\* A URL string is its part before the query and its query, a sequence of
\* name=value pairs as written (percent-encoded). A string that is no URL is
\* InvalidUrl, and no string at all (the variable is not set) is NoUrl.
NoUrl == [kind |-> "undefined", origin |-> "", query |-> <<>>]
InvalidUrl == [kind |-> "invalid", origin |-> "not a url", query |-> <<>>]
NotCalled == [kind |-> "not called", origin |-> "", query |-> <<>>]
Threw == [kind |-> "TypeError", origin |-> "", query |-> <<>>]

PoolingNames ==
    <<"connection_limit", "pool_timeout", "schema", "statement_timeout",
      "idle_in_transaction_session_timeout">>

\* The values a parameter is written with in a base URL.
WrittenValues == {"7", "my%20schema", ""}

\* URLSearchParams decodes a value when it parses the query and encodes it
\* when it writes the query back.
DecodeValue(written) == IF written \in {"my%20schema", "my+schema"} THEN "my schema" ELSE written
EncodeValue(value) == IF value = "my schema" THEN "my+schema" ELSE value

\* new URL(baseUrl).searchParams: the decoded name-value list.
ParseQuery(query) ==
    [k \in DOMAIN query |-> [name |-> query[k].name, value |-> DecodeValue(query[k].written)]]

\* The query written from a name-value list.
SerializeQuery(params) ==
    [k \in DOMAIN params |-> [name |-> params[k].name, written |-> EncodeValue(params[k].value)]]

\* url.searchParams.has(name)
Has(params, name) == \E k \in DOMAIN params : params[k].name = name

\* url.searchParams.set(name, value) when has(name) is false: the pair is appended.
SetMissing(params, name, value) == Append(params, [name |-> name, value |-> value])

\* The defaults each getDatabaseUrl adds, in the order of its if statements.
LibDefaults ==
    << [name |-> "connection_limit", value |-> "5"],
       [name |-> "pool_timeout", value |-> "10"],
       [name |-> "schema", value |-> "public"],
       [name |-> "statement_timeout", value |-> "30s"],
       [name |-> "idle_in_transaction_session_timeout", value |-> "30s"] >>
DeploymentDefaults ==
    << [name |-> "connection_limit", value |-> "5"],
       [name |-> "pool_timeout", value |-> "10"],
       [name |-> "schema", value |-> "public"] >>
Defaults(v) == IF v = "lib" THEN LibDefaults ELSE DeploymentDefaults

\* The if statements from the k-th on, applied to the name-value list.
RECURSIVE AddDefaults(_, _, _)
AddDefaults(params, defaults, k) ==
    IF k > Len(defaults) THEN params
    ELSE AddDefaults(
           IF Has(params, defaults[k].name) THEN params
           ELSE SetMissing(params, defaults[k].name, defaults[k].value),
           defaults, k + 1)

\* getDatabaseUrl() with DATABASE_URL = base. The query is written anew from
\* the list when a set() ran, and is the query as it was otherwise.
GetDatabaseUrl(v, base) ==
    IF base.kind = "undefined" THEN base
    ELSE IF base.kind # "url" THEN Threw
    ELSE LET params == ParseQuery(base.query)
             added == AddDefaults(params, Defaults(v), 1)
         IN [kind |-> "url", origin |-> base.origin,
             query |-> IF added = params THEN base.query ELSE SerializeQuery(added)]

\* The queries of the base URLs: each pooling parameter absent or written
\* with a value, schema possibly twice, another parameter possibly before
\* or after them.
PresenceChoices == [1..5 -> WrittenValues \cup {"absent"}]

RECURSIVE QueryOf(_, _)
QueryOf(choice, k) ==
    IF k > 5 THEN <<>>
    ELSE (IF choice[k] = "absent" THEN <<>>
          ELSE << [name |-> PoolingNames[k], written |-> choice[k]] >>)
         \o QueryOf(choice, k + 1)

Decorated(query, extra) ==
    CASE extra = "none" -> query
      [] extra = "before" -> << [name |-> "sslmode", written |-> "require"] >> \o query
      [] extra = "after" -> query \o << [name |-> "sslmode", written |-> "my+schema"] >>
      [] OTHER -> query \o << [name |-> "schema", written |-> "7"] >>

BaseUrls ==
    { [kind |-> "url", origin |-> "postgresql://user:pw@db.example.com:5432/app",
       query |-> Decorated(QueryOf(choice, 1), extra)] :
         choice \in PresenceChoices, extra \in {"none", "before", "after", "schema again"} }
    \cup {NoUrl, InvalidUrl}

\* The module calls getDatabaseUrl() when it builds the handle.
CallGetDatabaseUrl ==
    /\ urlOut = NotCalled
    /\ urlOut' = GetDatabaseUrl(urlVariant, baseUrl)
    /\ UNCHANGED <<urlVariant, baseUrl, urlAgain>>

\* getDatabaseUrl() with DATABASE_URL set to what it returned.
CallGetDatabaseUrlAgain ==
    /\ urlOut # NotCalled
    /\ urlAgain = NotCalled
    /\ urlAgain' = GetDatabaseUrl(urlVariant, urlOut)
    /\ UNCHANGED <<urlVariant, baseUrl, urlOut>>

UrlInit ==
    /\ urlVariant \in {"lib", "deployment"}
    /\ baseUrl \in BaseUrls
    /\ urlOut = NotCalled
    /\ urlAgain = NotCalled

UrlIdle ==
    /\ urlVariant = "lib"
    /\ baseUrl = NoUrl
    /\ urlOut = NotCalled
    /\ urlAgain = NotCalled

(***************************************************************************)
(* extractConfidence                                                       *)
(***************************************************************************)
MaxTextLen == 6

\* A text is a sequence of tokens: the label in upper and in lower case, a
\* white space, digits, the percent sign, and a word.
Tokens == {"CONFIDENCE SCORE:", "confidence score:", " ", "8", "2", "%", "flu"}

Texts == UNION { [1..n -> Tokens] : n \in 0..MaxTextLen }

\* /CONFIDENCE SCORE:/i
IsLabel(token) == token \in {"CONFIDENCE SCORE:", "confidence score:"}
\* \s
IsSpace(token) == token = " "
\* \d
IsDigit(token) == token \in {"8", "2"}

DigitValue(token) == IF token = "8" THEN 8 ELSE 2

\* The first position from k on that \s* does not consume.
RECURSIVE SkipSpaces(_, _)
SkipSpaces(t, k) ==
    IF k <= Len(t) /\ IsSpace(t[k]) THEN SkipSpaces(t, k + 1) ELSE k

\* The first position from k on that \d+ does not consume.
RECURSIVE SkipDigits(_, _)
SkipDigits(t, k) ==
    IF k <= Len(t) /\ IsDigit(t[k]) THEN SkipDigits(t, k + 1) ELSE k

\* The pattern /CONFIDENCE SCORE:\s*(\d+)%/i matches with its label at k.
MatchesAt(t, k) ==
    /\ k \in DOMAIN t
    /\ IsLabel(t[k])
    /\ LET d == SkipSpaces(t, k + 1)
           e == SkipDigits(t, d)
       IN e > d /\ e <= Len(t) /\ t[e] = "%"

\* text.match(pattern) without the g flag: the leftmost match, 0 for null.
Match(t) ==
    IF \E k \in DOMAIN t : MatchesAt(t, k)
    THEN CHOOSE k \in DOMAIN t :
           MatchesAt(t, k) /\ \A j \in DOMAIN t : MatchesAt(t, j) => j >= k
    ELSE 0

\* parseFloat of the digits t[d], ..., t[e - 1].
RECURSIVE ParseFloat(_, _, _)
ParseFloat(t, d, e) ==
    IF e <= d THEN 0 ELSE 10 * ParseFloat(t, d, e - 1) + DigitValue(t[e - 1])

\* A returned number is kept as its count of hundredths; null is no number.
ConfidenceNull == [kind |-> "null", hundredths |-> 0]
NotExtracted == [kind |-> "not called", hundredths |-> 0]
Fraction(n) == [kind |-> "number", hundredths |-> n]

\* confidenceMatch[1]: the digits of the match with its label at k.
Group1(t, k) ==
    LET d == SkipSpaces(t, k + 1) IN ParseFloat(t, d, SkipDigits(t, d))

extractConfidence(t) ==
    LET confidenceMatch == Match(t)
    IN IF confidenceMatch # 0 THEN Fraction(Group1(t, confidenceMatch))
       ELSE ConfidenceNull

\* An endpoint calls extractConfidence on the cleaned text.
ExtractConfidence ==
    /\ confidence = NotExtracted
    /\ confidence' = extractConfidence(text)
    /\ UNCHANGED text

ConfInit ==
    /\ text \in Texts
    /\ confidence = NotExtracted

ConfIdle ==
    /\ text = <<>>
    /\ confidence = NotExtracted

(***************************************************************************)
(* Specifications                                                          *)
(***************************************************************************)
InitRetry == RetryInit /\ ConnIdle /\ AuthIdle /\ GateIdle /\ DocIdle /\ UrlIdle /\ ConfIdle

NextRetry ==
    \/ \E max \in 0..MaxRetriesBound : RetryCall(max) /\ UNCHANGED <<connVars, authVars, gateVars, docVars, urlVars, confVars, teardownVars>>
    \/ \E value \in OperationValues : OperationResolves(value) /\ UNCHANGED <<connVars, authVars, gateVars, docVars, urlVars, confVars, teardownVars>>
    \/ \E message \in ErrorMessages : OperationRejects(message) /\ UNCHANGED <<connVars, authVars, gateVars, docVars, urlVars, confVars, teardownVars>>
    \/ \E ok \in BOOLEAN : CleanupSettles(ok) /\ UNCHANGED <<connVars, authVars, gateVars, docVars, urlVars, confVars, teardownVars>>
    \/ BackoffElapses /\ UNCHANGED <<connVars, authVars, gateVars, docVars, urlVars, confVars, teardownVars>>

SpecRetry == InitRetry /\ [][NextRetry]_vars

InitConn == ConnInit /\ RetryIdle /\ AuthIdle /\ GateIdle /\ DocIdle /\ UrlIdle /\ ConfIdle

NextConn ==
    \/ LoadConnectionManager /\ UNCHANGED <<retryVars, authVars, gateVars, docVars, urlVars, confVars, teardownVars>>
    \/ \E r \in ReqIds : RequestArrives(r) /\ UNCHANGED <<retryVars, authVars, gateVars, docVars, urlVars, confVars, teardownVars>>
    \/ \E r \in ReqIds, ok \in BOOLEAN : RequestQuery(r, ok) /\ UNCHANGED <<retryVars, authVars, gateVars, docVars, urlVars, confVars, teardownVars>>
    \/ \E r \in ReqIds : RequestBackoffElapses(r) /\ UNCHANGED <<retryVars, authVars, gateVars, docVars, urlVars, confVars, teardownVars>>
    \/ \E sig \in Signals : SignalReceived(sig) /\ UNCHANGED <<retryVars, authVars, gateVars, docVars, urlVars, confVars>>
    \/ \E h \in DOMAIN handles : DisconnectCompletes(h) /\ UNCHANGED <<retryVars, authVars, gateVars, docVars, urlVars, confVars, teardownVars>>
    \/ \E k \in DOMAIN sigHandlers : SignalHandlerExits(k) /\ UNCHANGED <<retryVars, authVars, gateVars, docVars, urlVars, confVars, teardownVars>>

SpecConn == InitConn /\ [][NextConn]_vars

\* The Connection Manager with the exit through 'beforeExit' as well.
NextTeardown ==
    \/ NextConn
    \/ BeforeExitEmitted /\ UNCHANGED <<retryVars, authVars, gateVars, docVars, urlVars, confVars>>
    \/ \E k \in DOMAIN hookRuns, ok \in BOOLEAN :
          HookResetSettles(k, ok) /\ UNCHANGED <<retryVars, authVars, gateVars, docVars, urlVars, confVars>>
    \/ \E k \in DOMAIN hookRuns : HookReturns(k) /\ UNCHANGED <<retryVars, authVars, gateVars, docVars, urlVars, confVars>>
    \/ ProcessExits /\ UNCHANGED <<retryVars, authVars, gateVars, docVars, urlVars, confVars>>

SpecTeardown == InitConn /\ [][NextTeardown]_vars

InitAuth == AuthInit /\ RetryIdle /\ ConnIdle /\ GateIdle /\ DocIdle /\ UrlIdle /\ ConfIdle

NextAuth ==
    \/ \E r \in AuthIds, u \in Usernames, p \in RegisterPasswords :
          RegisterArrives(r, u, p) /\ UNCHANGED <<retryVars, connVars, gateVars, docVars, urlVars, confVars, teardownVars>>
    \/ \E r \in AuthIds, ok \in BOOLEAN : RegisterLookup(r, ok) /\ UNCHANGED <<retryVars, connVars, gateVars, docVars, urlVars, confVars, teardownVars>>
    \/ \E r \in AuthIds : RegisterHash(r) /\ UNCHANGED <<retryVars, connVars, gateVars, docVars, urlVars, confVars, teardownVars>>
    \/ \E r \in AuthIds, ok \in BOOLEAN : RegisterCreate(r, ok) /\ UNCHANGED <<retryVars, connVars, gateVars, docVars, urlVars, confVars, teardownVars>>
    \/ \E r \in AuthIds, u \in Usernames, p \in LoginPasswords :
          LoginArrives(r, u, p) /\ UNCHANGED <<retryVars, connVars, gateVars, docVars, urlVars, confVars, teardownVars>>
    \/ \E r \in AuthIds, ok \in BOOLEAN : LoginLookup(r, ok) /\ UNCHANGED <<retryVars, connVars, gateVars, docVars, urlVars, confVars, teardownVars>>
    \/ \E r \in AuthIds : LoginCompare(r) /\ UNCHANGED <<retryVars, connVars, gateVars, docVars, urlVars, confVars, teardownVars>>
    \/ \E r \in AuthIds : AuthRequestEnds(r) /\ UNCHANGED <<retryVars, connVars, gateVars, docVars, urlVars, confVars, teardownVars>>

SpecAuth == InitAuth /\ [][NextAuth]_vars

InitGate == GateInit /\ RetryIdle /\ ConnIdle /\ AuthIdle /\ DocIdle /\ UrlIdle /\ ConfIdle

NextGate ==
    \/ \E r \in GateIds, rt \in Routes, header \in Headers :
          GateRequestArrives(r, rt, header) /\ UNCHANGED <<retryVars, connVars, authVars, docVars, urlVars, confVars, teardownVars>>
    \/ \E r \in GateIds : AuthenticateToken(r) /\ UNCHANGED <<retryVars, connVars, authVars, docVars, urlVars, confVars, teardownVars>>
    \/ \E r \in GateIds, status \in {200, 201, 400, 401, 404, 500}, reached \in BOOLEAN :
          RunHandler(r, status, reached) /\ UNCHANGED <<retryVars, connVars, authVars, docVars, urlVars, confVars, teardownVars>>
    \/ \E r \in GateIds : GateRequestEnds(r) /\ UNCHANGED <<retryVars, connVars, authVars, docVars, urlVars, confVars, teardownVars>>

SpecGate == InitGate /\ [][NextGate]_vars

InitDocs == DocInit /\ RetryIdle /\ ConnIdle /\ AuthIdle /\ GateIdle /\ UrlIdle /\ ConfIdle

NextDocs ==
    \/ \E row \in DocumentRows :
          CreateDocument(row) /\ UNCHANGED <<retryVars, connVars, authVars, gateVars, urlVars, confVars, teardownVars>>
    \/ \E query \in Queries, ok \in BOOLEAN :
          ListDocuments(query, ok) /\ UNCHANGED <<retryVars, connVars, authVars, gateVars, urlVars, confVars, teardownVars>>
    \/ ListResponseSent /\ UNCHANGED <<retryVars, connVars, authVars, gateVars, urlVars, confVars, teardownVars>>

SpecDocs == InitDocs /\ [][NextDocs]_vars

InitUrl == UrlInit /\ RetryIdle /\ ConnIdle /\ AuthIdle /\ GateIdle /\ DocIdle /\ ConfIdle

NextUrl ==
    \/ CallGetDatabaseUrl /\ UNCHANGED <<retryVars, connVars, authVars, gateVars, docVars, confVars, teardownVars>>
    \/ CallGetDatabaseUrlAgain /\ UNCHANGED <<retryVars, connVars, authVars, gateVars, docVars, confVars, teardownVars>>

SpecUrl == InitUrl /\ [][NextUrl]_vars

InitConf == ConfInit /\ RetryIdle /\ ConnIdle /\ AuthIdle /\ GateIdle /\ DocIdle /\ UrlIdle

NextConf ==
    \/ ExtractConfidence /\ UNCHANGED <<retryVars, connVars, authVars, gateVars, docVars, urlVars, teardownVars>>

SpecConf == InitConf /\ [][NextConf]_vars

\* The event loop runs a continuation whose promise has resolved, and the
\* release of a closing handle ends.
SpecConnFair ==
    /\ SpecConn
    /\ WF_vars(\E h \in DOMAIN handles : DisconnectCompletes(h) /\ UNCHANGED <<retryVars, authVars, gateVars, docVars, urlVars, confVars, teardownVars>>)
    /\ WF_vars(\E k \in DOMAIN sigHandlers : SignalHandlerExits(k) /\ UNCHANGED <<retryVars, authVars, gateVars, docVars, urlVars, confVars, teardownVars>>)

(***************************************************************************)
(* Claims                                                                  *)
(***************************************************************************)
Last(s) == s[Len(s)]
Failures(log) == Cardinality({k \in DOMAIN log : ~log[k].ok})

\* What C1 says of a call of withRetry, whatever maxRetries is.
RetryContract ==
    /\ Len(attemptLog) <= maxRetries
    /\ \A k \in DOMAIN attemptLog :
          attemptLog[k].ok => k = Len(attemptLog) /\ retryPc = "returned"
    /\ retryPc = "returned" =>
          /\ attemptLog # <<>>
          /\ Last(attemptLog).ok
          /\ result = Last(attemptLog).value
    /\ retryPc = "backoff" => Len(attemptLog) < maxRetries
    /\ retryPc = "thrown" =>
          /\ Len(attemptLog) = maxRetries
          /\ \A k \in DOMAIN attemptLog : ~attemptLog[k].ok
          /\ thrown = Last(attemptLog).error
          /\ thrown.attempt = maxRetries

\* C1 (as stated): for every maxRetries, withRetry runs the operation at most
\* maxRetries times, stops at the first success and returns its result, raises
\* the last attempt's error after exactly maxRetries failed attempts, and
\* never returns normally unless an attempt succeeded.
C1_Original == retryPc # "idle" => RetryContract

\* C1 (amended): the same, for every maxRetries >= 1. With maxRetries = 0 the
\* loop body never runs and the call returns undefined with no attempt made.
C1_RetryContract == (retryPc # "idle" /\ maxRetries >= 1) => RetryContract

\* C1 witness: the default three attempts all failed and the third error is raised.
C1_Witness ==
    /\ retryPc = "thrown"
    /\ maxRetries = DefaultMaxRetries
    /\ Len(attemptLog) = 3
    /\ thrown = attemptLog[3].error

\* A finished register request for a username that has a row another request created.
DuplicateRegistration(req) ==
    /\ req.kind = "register"
    /\ req.pc = "done"
    /\ req.username # ""
    /\ req.password # ""
    /\ \E k \in DOMAIN users :
          users[k].username = req.username /\ users[k].id # req.response.userId

\* C2 (as stated): the store never holds two users of one username, and a
\* register request whose username already has a row is answered 400, also
\* when the lookups and creates of two requests interleave. (A 500 that
\* reports a transient data-store failure is not counted against the claim.)
C2_Original ==
    /\ \A j, k \in DOMAIN users : users[j].username = users[k].username => j = k
    /\ \A r \in AuthIds :
          ( /\ DuplicateRegistration(authReqs[r])
            /\ authReqs[r].response.error # TransientMessage )
          => authReqs[r].response.status = 400

\* A finished login with both fields given whose lookup found no user.
UnknownUserLogin(req) ==
    /\ req.kind = "login"
    /\ req.pc = "done"
    /\ req.username # "" /\ req.password # ""
    /\ req.found = Null

\* A finished login with both fields given whose lookup found a user with
\* another password.
WrongPasswordLogin(req) ==
    /\ req.kind = "login"
    /\ req.pc = "done"
    /\ req.username # "" /\ req.password # ""
    /\ req.found.id >= 1
    /\ req.found.password # <<"bcrypt", 10, req.password>>

\* C3: a login naming an unknown user and a login naming an existing user
\* with a wrong password get the same response, status 401 with the error
\* "Invalid credentials".
C3_UniformFailure ==
    /\ \A r1, r2 \in AuthIds :
          (UnknownUserLogin(authReqs[r1]) /\ WrongPasswordLogin(authReqs[r2]))
          => authReqs[r1].response = authReqs[r2].response
    /\ \A r \in AuthIds :
          (UnknownUserLogin(authReqs[r]) \/ WrongPasswordLogin(authReqs[r]))
          => /\ authReqs[r].response.status = 401
             /\ authReqs[r].response.error = "Invalid credentials"

\* C3 witness: both kinds of failed login have been answered.
C3_Witness ==
    \E r1, r2 \in AuthIds :
        /\ UnknownUserLogin(authReqs[r1])
        /\ WrongPasswordLogin(authReqs[r2])
        /\ authReqs[r1].response.status = 401
        /\ authReqs[r2].response.status = 401

\* The protected routes C4 names: /auth/verify, /documents*, /claude/*.
ClaimedProtected ==
    { "GET /auth/verify", "POST /documents", "GET /documents", "GET /documents/:id",
      "PUT /documents/:id", "DELETE /documents/:id", "POST /claude/text-processing",
      "POST /claude/pattern-analysis", "POST /claude/reasoning-generation" }

\* The headers that carry no token, and the one token that verifies.
CarriesNoToken(header) == Len(header) < 2 \/ header[2] = ""
CarriesValidToken(header) == Len(header) >= 2 /\ header[2] = "jwt-alice"

\* C4: on a protected route a request without a token is answered 401 and one
\* whose token fails verification 403, and neither reaches the handler, the
\* data store or the completion service; the handler runs only after a
\* successful verification, with the decoded identity attached, and once.
C4_AuthGate ==
    \A r \in GateIds :
      LET req == gateReqs[r] IN
      req.route \in ClaimedProtected =>
        /\ req.handlerRuns <= 1
        /\ (req.pc = "handler" \/ req.handlerRuns = 1) =>
              /\ CarriesValidToken(req.header)
              /\ req.user = [userId |-> 1, username |-> "alice"]
        /\ ~CarriesValidToken(req.header) =>
              /\ req.pc # "handler"
              /\ req.handlerRuns = 0
              /\ req.storeCalls = 0
              /\ req.outboundCalls = 0
              /\ req.pc = "done" =>
                    req.status = IF CarriesNoToken(req.header) THEN 401 ELSE 403
        /\ (req.pc = "done" /\ CarriesValidToken(req.header)) => req.handlerRuns = 1

\* C4 witness: a documents handler has run and reached the store for a verified request.
C4_Witness ==
    \E r \in GateIds :
        /\ gateReqs[r].route = "DELETE /documents/:id"
        /\ gateReqs[r].pc = "done"
        /\ gateReqs[r].handlerRuns = 1
        /\ gateReqs[r].storeCalls = 1
        /\ gateReqs[r].user.username = "alice"

\* A filter of the query is set when it is present and not empty.
FilterSet(query, f) == query[f] \notin {"undefined", ""}

\* C8 (as stated): GET /documents answers with exactly the stored documents
\* that equal the supplied value on every filter that is set, newest first;
\* an absent or empty filter does not constrain the result.
C8_Original ==
    listResponse.status = 200 =>
      /\ \A k \in DOMAIN documents :
            (\A f \in FilterFields : FilterSet(listQuery, f) => documents[k][f] = listQuery[f])
            <=> Cardinality({j \in DOMAIN listResponse.docs : listResponse.docs[j] = documents[k]})
                  = Cardinality({j \in DOMAIN documents : documents[j] = documents[k]})
      /\ Len(listResponse.docs) <= Len(documents)
      /\ \A a, b \in DOMAIN listResponse.docs :
            a < b => listResponse.docs[a].createdAt >= listResponse.docs[b].createdAt

\* The decoded values a query gives a name, in order.
RECURSIVE ValuesOf(_, _, _)
ValuesOf(query, name, k) ==
    IF k > Len(query) THEN <<>>
    ELSE (IF query[k].name = name
          THEN << IF query[k].written \in {"my%20schema", "my+schema"}
                  THEN "my schema" ELSE query[k].written >>
          ELSE <<>>)
         \o ValuesOf(query, name, k + 1)

FixedDefault(name) ==
    CASE name = "connection_limit" -> "5"
      [] name = "pool_timeout" -> "10"
      [] name = "schema" -> "public"
      [] OTHER -> "30s"

FiveNames ==
    {"connection_limit", "pool_timeout", "schema", "statement_timeout",
     "idle_in_transaction_session_timeout"}

\* C9 (as stated): for every base URL, in both getDatabaseUrl functions, the
\* result has each of the five parameters: a missing one with its fixed
\* default, a present one with its values unchanged; nothing else is added
\* or changed; and getDatabaseUrl of the result is the result.
C9_Original ==
    (baseUrl.kind = "url" /\ urlOut # NotCalled) =>
      /\ urlOut.kind = "url"
      /\ urlOut.origin = baseUrl.origin
      /\ \A name \in FiveNames :
            ValuesOf(urlOut.query, name, 1) =
              IF ValuesOf(baseUrl.query, name, 1) = <<>>
              THEN <<FixedDefault(name)>>
              ELSE ValuesOf(baseUrl.query, name, 1)
      /\ ValuesOf(urlOut.query, "sslmode", 1) = ValuesOf(baseUrl.query, "sslmode", 1)
      /\ \A k \in DOMAIN urlOut.query : urlOut.query[k].name \in FiveNames \cup {"sslmode"}
      /\ urlAgain # NotCalled => urlAgain = urlOut

\* The text has the annotation "CONFIDENCE SCORE: N%" from position k to
\* position e: the label, white space if any, the digits of N, a percent sign.
AnnotationAt(t, k, e) ==
    /\ k \in DOMAIN t /\ e \in DOMAIN t /\ e >= k + 2
    /\ t[k] \in {"CONFIDENCE SCORE:", "confidence score:"}
    /\ t[e] = "%"
    /\ \E d \in (k + 1)..(e - 1) :
         /\ \A j \in (k + 1)..(d - 1) : t[j] = " "
         /\ \A j \in d..(e - 1) : t[j] \in {"8", "2"}

\* The number the digits t[d..e-1] of an annotation write.
RECURSIVE Written(_, _, _)
Written(t, k, e) ==
    IF t[e] \notin {"8", "2"} THEN 0
    ELSE 10 * Written(t, k, e - 1) + (IF t[e] = "8" THEN 8 ELSE 2)

\* The annotation is trailing: only white space follows it.
Trailing(t, k, e) ==
    AnnotationAt(t, k, e) /\ \A j \in (e + 1)..Len(t) : t[j] = " "

\* C10 (as stated): a text with a trailing annotation gives N/100 of that
\* annotation, and a text with no annotation gives null and no number.
C10_Original ==
    confidence # NotExtracted =>
      /\ \A k, e \in DOMAIN text :
            Trailing(text, k, e) =>
              confidence = [kind |-> "number", hundredths |-> Written(text, k, e - 1)]
      /\ (~ \E k, e \in DOMAIN text : AnnotationAt(text, k, e)) =>
            confidence = [kind |-> "null", hundredths |-> 0]

\* C5: the k-th delay handed to the timer is 1000 * 2^(k-1) ms; one delay
\* follows each failed attempt that has attempts remaining and none follows
\* the final failed attempt; an operation that fails twice and then succeeds
\* is attempted 3 times with delays 1000 then 2000.
C5_Backoff ==
    /\ \A k \in DOMAIN delays : delays[k] = 1000 * 2^(k - 1)
    /\ retryPc \in {"operation", "backoff", "returned"} => Len(delays) = Failures(attemptLog)
    /\ retryPc = "cleanup" => Len(delays) = Failures(attemptLog) - 1
    /\ retryPc = "thrown" =>
          /\ Len(delays) = Failures(attemptLog) - 1
          /\ Len(delays) = maxRetries - 1
    /\ ( /\ retryPc = "returned"
         /\ Failures(attemptLog) = 2
         /\ Len(attemptLog) = 3 ) => delays = <<1000, 2000>>
    /\ ( /\ maxRetries >= DefaultMaxRetries
         /\ Len(attemptLog) = 2
         /\ Failures(attemptLog) = 2 ) => retryPc \in {"cleanup", "backoff", "operation"}

\* C5 witness: two failures, then a success, under the default maxRetries.
C5_Witness ==
    /\ retryPc = "returned"
    /\ maxRetries = DefaultMaxRetries
    /\ Len(attemptLog) = 3
    /\ Failures(attemptLog) = 2
    /\ delays = <<1000, 2000>>

\* The error message reports a duplicate prepared statement.
DuplicatePreparedStatement(message) == message = "prepared statement s0 already exists"

\* The attempts whose DEALLOCATE ALL has settled.
CleanedAttempts == { cleanupLog[k].attempt : k \in DOMAIN cleanupLog }

\* C11: DEALLOCATE ALL is issued after a failed attempt exactly when the
\* error message reports a duplicate prepared statement, once for that
\* attempt; the attempts made and the outcome depend on the operation's
\* results alone, so they are the same whether the command succeeds or
\* fails; and the error raised is the operation's last error, never the
\* cleanup's.
C11_CleanupSwallowed ==
    /\ [](\A k \in DOMAIN attemptLog :
            LET issued == k \in CleanedAttempts \/ (k = Len(attemptLog) /\ retryPc = "cleanup")
            IN issued <=> (~attemptLog[k].ok /\ DuplicatePreparedStatement(attemptLog[k].error.message)))
    /\ [](\A j, k \in DOMAIN cleanupLog : cleanupLog[j].attempt = cleanupLog[k].attempt => j = k)
    /\ [](retryPc = "thrown" =>
            /\ Len(attemptLog) = maxRetries
            /\ thrown = attemptLog[Len(attemptLog)].error
            /\ thrown.message # "DEALLOCATE ALL failed: connection closed")
    /\ []((retryPc = "returned" /\ attemptLog # <<>>) =>
            /\ attemptLog[Len(attemptLog)].ok
            /\ result = attemptLog[Len(attemptLog)].value)
    /\ [][cleanupLog' # cleanupLog =>
            /\ attemptLog' = attemptLog /\ i' = i /\ result' = result
            /\ retryPc' = IF Len(attemptLog) = maxRetries THEN "thrown" ELSE "backoff"
            /\ thrown' = IF Len(attemptLog) = maxRetries
                         THEN attemptLog[Len(attemptLog)].error ELSE thrown]_vars

\* C11 witness: the default three attempts, each rejected with a duplicate
\* prepared statement, a cleanup that failed and one that succeeded, and
\* the operation's error raised.
C11_Witness ==
    /\ retryPc = "thrown"
    /\ maxRetries = 3
    /\ Len(cleanupLog) = 3
    /\ \E k \in DOMAIN cleanupLog : ~cleanupLog[k].ok
    /\ \E k \in DOMAIN cleanupLog : cleanupLog[k].ok
    /\ thrown.message = "prepared statement s0 already exists"

SingletonMode == variant = "lib" \/ nodeEnv = "development"

C12_Original ==
    nodeEnv = "production" =>
      /\ \A j \in DOMAIN teardownLog :
            teardownLog[j].command = "release" =>
              \E n \in 1..(j - 1) :
                 /\ teardownLog[n].command = "reset"
                 /\ teardownLog[n].handle = teardownLog[j].handle
      /\ \A k \in DOMAIN hookRuns :
            (hookRuns[k].reset = "failed" /\ hookRuns[k].pc = "done") =>
               handles[hooks[k].handle] = "closed"

\* C7: once SIGINT or SIGTERM is received the release of the handle of
\* src/index.js has started; the process exits only with that handle released,
\* whatever requests or retries are in flight; and it does exit.
C7_ReleaseBeforeExit ==
    /\ [](sigHandlers # <<>> => handles[appPrisma] \in {"closing", "closed"})
    /\ [](exited => sigHandlers # <<>> /\ handles[appPrisma] = "closed")
    /\ (sigHandlers # <<>>) ~> exited

\* C7 witness: the process has exited on a signal with a retry still waiting.
C7_Witness ==
    /\ exited
    /\ handles[appPrisma] = "closed"
    /\ \E r \in ReqIds : reqs[r].pc = "backoff"

====
